---- MODULE Spec2Model ----
(***************************************************************************)
(* Model of the inspection backend (server.js): the POST /api/inspect      *)
(* handler, Worker.processJob, the status and results routes, the job      *)
(* store (Redis db 1, hashes job:<id>) and the result cache (Redis db 0,   *)
(* keys result:<id> with a TTL).                                           *)
(*                                                                         *)
(* Every await of the code is a step that either resolves or rejects.      *)
(* Code between two awaits runs to completion (one JavaScript turn) and is *)
(* part of the action of the await that precedes it.                       *)
(***************************************************************************)
EXTENDS Integers, Sequences, FiniteSets, TLC

\* Number of submissions explored (uuidv4 hands out fresh ids 1, 2, ...).
MaxJobs == 2

JobIds == 1..MaxJobs

\* Number of single-file requests explored.
MaxFetches == 2

FetchIds == 1..MaxFetches

\* Jobs submitted while file requests are followed.
FileJobs == 1

\* JavaScript undefined / a field that is absent from a Redis hash.
Undefined == "undefined"

\* A key that does not exist (redis.get gives null) / an absent text field.
Absent == << >>

\* image_name values a request body can carry: a resolvable reference,
\* the empty string, and no image_name at all.
ImageInputs == {"alpine:latest", "", Undefined}

\* What image.inspect() reports for Config.Env.
EnvValues == {"null", "PATH=/bin"}

VARIABLES
  jobStore,     \* jobQueue: job id -> hash {imageUrl, jobId, status, result, error}
  cache,        \* redis: job id -> text stored under result:<id>, or Absent
  nextId,       \* the next id uuidv4() returns
  pc,           \* per job: where its request handler / processJob stands
  req,          \* per job: the image_name of the request (jobData.imageUrl)
  inspect,      \* per job: the local `inspect` of processJob
  container,    \* per job: the container processJob created
  err,          \* per job: the error caught by processJob's catch
  cacheWritten, \* per job: history, the text the setex of this job stored
  resultsReq,   \* the results request waiting for its hgetall (0: none)
  resp,         \* the HTTP response sent by the current step
  fpc,          \* per file request: where its handler stands
  fcontainer,   \* per file request: the container the handler created
  ferr,         \* per file request: the exception pending in the finally
  fmtIn,        \* formatSize: the size passed to the last call
  fmtOut,       \* formatSize: the string the last call returned
  treeIn,       \* buildFileTree: the records passed to the last call
  tree,         \* buildFileTree: the nodes the last call built
  cpc,          \* DockerInspector: idle, posting, polling or done
  csent,        \* DockerInspector: submissions made so far
  cfetches,     \* DockerInspector: status queries in flight
  ctimers,      \* DockerInspector: pending timeouts, each its delay in ms
  cresults,     \* DockerInspector: result fetches in flight
  creply,       \* DockerInspector: the status in the last reply to a query
  cerror,       \* DockerInspector: the state `error`
  cdata,        \* DockerInspector: the state `inspectionData`, as polled
  hasData,      \* file browser: inspectionData.files is set
  inspectionFiles, \* file browser: inspectionData.files as it is now
  receivedFiles,   \* file browser: inspectionData.files as it was received
  searchTerm,   \* file browser: the state `searchTerm`
  filteredFiles \* file browser: the value of the memo `filteredFiles`

\* The state of the file route.
fileVars == <<fpc, fcontainer, ferr>>

\* The last call of formatSize.
fmtVars == <<fmtIn, fmtOut>>

\* The last call of buildFileTree.
treeVars == <<treeIn, tree>>

\* The polling client of the frontend.
clientVars ==
  <<cpc, csent, cfetches, ctimers, cresults, creply, cerror, cdata>>

\* The file browser of the frontend.
filterVars ==
  <<hasData, inspectionFiles, receivedFiles, searchTerm, filteredFiles>>

\* The state outside the server's routes and pipeline.
auxVars == <<fmtVars, treeVars, clientVars, filterVars>>

\* The state of the server's routes and pipeline.
backendVars ==
  <<jobStore, cache, nextId, pc, req, inspect, container, err, cacheWritten,
    resultsReq, resp, fileVars>>

vars ==
  <<jobStore, cache, nextId, pc, req, inspect, container, err, cacheWritten,
    resultsReq, resp, fpc, fcontainer, ferr, auxVars>>

----------------------------------------------------------------------------
\* Values

\* ioredis converts null and undefined arguments to the empty string.
ToArg(v) == IF v = Undefined THEN "" ELSE v

\* A hash with no fields: what hgetall gives for a key that does not exist ({}).
EmptyHash ==
  [imageUrl |-> Undefined, jobId |-> 0, status |-> Undefined,
   result |-> Absent, error |-> Undefined]

\* The object `result` built by processJob.
BuildResult(img, env) ==
  [manifest |-> img, env |-> env, files |-> "tree(/app)"]

\* JSON.stringify of a result object: the text, as its sequence of tokens.
Stringify(o) == <<"manifest", o.manifest, "env", o.env, "files", o.files>>

\* JSON.parse of such a text.
Parse(t) == [manifest |-> t[2], env |-> t[4], files |-> t[6]]

\* JavaScript truthiness of a text read from a store (null and "" are falsy).
Truthy(t) == t # Absent

\* JavaScript truthiness of a string field (undefined and "" are falsy).
TruthyStr(s) == s # Undefined /\ s # ""

\* !jobData for the object hgetall returned: an object is never falsy.
NotJobData(h) == FALSE

NoResp ==
  [kind |-> "none", job |-> 0, code |-> 0, status |-> Undefined,
   result |-> Absent, error |-> "null"]

Terminal(s) == s \in {"completed", "failed"}

\* The awaits of processJob's try block.
PipelineSteps ==
  {"pull", "inspect", "create", "getArchive", "extract", "remove",
   "setex", "hsetCompleted"}

\* processJob has ended: its promise resolved or rejected.
Ended(p) == p \in {"done", "unhandled"}

\* A pipeline that writes the job record before the cache.
NextPcRecordFirst(step) ==
  CASE step = "pull"          -> "inspect"
    [] step = "inspect"       -> "create"
    [] step = "create"        -> "getArchive"
    [] step = "getArchive"    -> "extract"
    [] step = "extract"       -> "remove"
    [] step = "remove"        -> "hsetCompleted"
    [] step = "hsetCompleted" -> "setex"
    [] step = "setex"         -> "done"

\* processJob lines 107-156: the await that follows a resolved await.
NextPc(step) ==
  CASE step = "pull"          -> "inspect"
    [] step = "inspect"       -> "create"
    [] step = "create"        -> "getArchive"
    [] step = "getArchive"    -> "extract"
    [] step = "extract"       -> "remove"
    [] step = "remove"        -> "setex"
    [] step = "setex"         -> "hsetCompleted"
    [] step = "hsetCompleted" -> "done"

\* The docker engine resolves only a real reference.
Resolvable(img) == img = "alpine:latest"

----------------------------------------------------------------------------
\* formatSize
\*
\* A size is written in base 1024, least significant digit first, so that
\* sizes beyond the largest unit fit the integers of the checker: the size
\* <<d1, d2, d3, ...>> is d1 + d2 * 1024 + d3 * 1024^2 + ...  Dividing by
\* 1024 k times moves the point k digits up, which is exact for a double.

Kilo == 1024

Units == <<"B", "KB", "MB", "GB">>

\* One digit more than there are units.
SizeDigits == Len(Units) + 1

\* Digits the sizes are made of.
DigitSamples == {0, 1, 256, 512, 973, 1023}

Sizes == [1..SizeDigits -> DigitSamples]

\* formattedSize >= 1024 after k divisions: a digit above the k+1st is set.
AtLeastKilo(d, k) == \E i \in (k + 2)..Len(d) : d[i] # 0

\* formattedSize = 1024 after k divisions.
ExactlyKilo(d, k) ==
  /\ k + 2 <= Len(d)
  /\ \A i \in 1..Len(d) : d[i] = (IF i = k + 2 THEN 1 ELSE 0)

\* The loop with > in place of >=.
UnitStepStrict(d, k) ==
  IF AtLeastKilo(d, k) /\ ~ExactlyKilo(d, k) /\ k < Len(Units) - 1
  THEN k + 1 ELSE k

\* Lines 26-29: one test of the while condition and, when it holds, one
\* pass of the body; gives the new unitIndex.
UnitStep(d, k) ==
  IF AtLeastKilo(d, k) /\ k < Len(Units) - 1 THEN k + 1 ELSE k

RECURSIVE UnitIndex(_, _)
\* Lines 24-29: unitIndex when the loop ends, started at k.
UnitIndex(d, k) ==
  IF UnitStep(d, k) = k THEN k ELSE UnitIndex(d, UnitStep(d, k))

RECURSIVE IntPart(_, _)
\* The integer part of formattedSize after k divisions.
IntPart(d, k) ==
  IF k + 1 > Len(d) THEN 0 ELSE d[k + 1] + Kilo * IntPart(d, k + 1)

RECURSIVE Twentieths(_, _)
\* floor(20 * f) for the fractional part f of formattedSize after k
\* divisions, the digits 1..k.
Twentieths(d, k) ==
  IF k = 0 THEN 0 ELSE (20 * d[k] + Twentieths(d, k - 1)) \div Kilo

\* toFixed(1): the tenths nearest to the fractional part, the larger on a tie.
RoundTenths(d, k) == (Twentieths(d, k) + 1) \div 2

\* Line 31: `${formattedSize.toFixed(1)}${units[unitIndex]}`
Render(d, k) ==
  LET t == RoundTenths(d, k)
  IN  IF t = 10
      THEN <<IntPart(d, k) + 1, ".", 0, Units[k + 1]>>
      ELSE <<IntPart(d, k), ".", t, Units[k + 1]>>

\* Lines 21-32
FormatSize(d) == Render(d, UnitIndex(d, 0))

\* A call of formatSize.  The function keeps no state between calls, so a
\* behaviour holds one call.
FormatCall(d) ==
  /\ fmtOut = << >>
  /\ fmtIn' = d
  /\ fmtOut' = FormatSize(d)
  /\ UNCHANGED <<backendVars, treeVars, clientVars, filterVars>>

----------------------------------------------------------------------------
\* buildFileTree
\*
\* A path is the sequence of its pieces between the separators: "/a/b" is
\* <<"", "a", "b">>, "a/b" is <<"a", "b">>, "a/" is <<"a", "">> and "/" is
\* <<"", "">>, so that a path with n separators has n + 1 pieces.

MaxRecords == 3

\* Line 37: the path of the root.
Root == <<"", "">>

\* path.dirname of a path without a separator.
Dot == <<".">>

\* Absolute paths as the tree is keyed by, and relative ones as the entries
\* of an archive are named ("a/" for a directory).
PathSamples ==
  { <<"", "a">>, <<"", "b">>, <<"", "a", "b">>, <<"", "a", "c.txt">>,
    <<"", "a", "b", "c.txt">>,
    <<"a", "">>, <<"a", "b">>, <<"a", "c.txt">> }

\* path.dirname and path.basename ignore one trailing separator.
StripTrailing(p) ==
  IF p # Root /\ Len(p) > 1 /\ p[Len(p)] = ""
  THEN SubSeq(p, 1, Len(p) - 1) ELSE p

\* Line 51: path.dirname
Dirname(p) ==
  LET q == StripTrailing(p)
  IN  IF Len(q) = 1 THEN Dot
      ELSE IF Len(q) = 2 /\ q[1] = "" THEN Root
      ELSE SubSeq(q, 1, Len(q) - 1)

\* Line 83: path.basename
Basename(p) == StripTrailing(p)[Len(StripTrailing(p))]

\* Line 47: (path.match(/\//g) || []).length
Slashes(p) == Len(p) - 1

\* The size whose lowest digits are ds.
SizeOf(ds) == [i \in 1..SizeDigits |-> IF i <= Len(ds) THEN ds[i] ELSE 0]

\* Lines 82-89: the record of an archive entry.  In the samples the entries
\* named c.txt are files and all others directories, so that every entry
\* with entries below it is a directory, as in the archive of a file system.
FileRecord(p) ==
  [name |-> Basename(p),
   path |-> p,
   size |-> SizeOf(<<512, Slashes(p)>>),
   type |-> IF Basename(p) = "c.txt" THEN "file" ELSE "directory",
   modified |-> "mtime",
   content |-> "bytes"]

\* Lists of at most MaxRecords records with distinct paths.
FileLists ==
  { [i \in DOMAIN ps |-> FileRecord(ps[i])] :
      ps \in { qs \in UNION { [1..n -> PathSamples] : n \in 0..MaxRecords } :
                 \A i, j \in DOMAIN qs : i # j => qs[i] # qs[j] } }

RECURSIVE FromDepth(_, _)
\* The records with d separators or more, by number of separators, records
\* with equally many in the order they have in fs.
FromDepth(fs, d) ==
  IF \A i \in DOMAIN fs : Slashes(fs[i].path) < d THEN << >>
  ELSE SelectSeq(fs, LAMBDA f : Slashes(f.path) = d) \o FromDepth(fs, d + 1)

\* A builder that takes the records in the order given.
SortByDepthOmitted(fs) == fs

\* Lines 46-48: files.sort by the number of separators (the sort is stable).
SortByDepth(fs) == FromDepth(fs, 0)

\* Lines 35-43: root and pathMap = { '/': root }
InitialNodes ==
  [threw |-> FALSE,
   nodes |-> [p \in {Root} |->
                [name |-> "", path |-> Root, type |-> "directory",
                 children |-> << >>]]]

\* Lines 54-64: the node of a record; only a directory has children.
NodeOf(file) ==
  IF file.type = "directory"
  THEN [name |-> file.name, path |-> file.path, size |-> FormatSize(file.size),
        type |-> file.type, modified |-> file.modified, children |-> << >>]
  ELSE [name |-> file.name, path |-> file.path, size |-> FormatSize(file.size),
        type |-> file.type, modified |-> file.modified]

\* A builder that hangs a record without a parent node under the root.
AttachOrphansToRoot(pm, file) ==
  LET parent == IF Dirname(file.path) \in DOMAIN pm.nodes
                THEN Dirname(file.path) ELSE Root
  IN  [pm EXCEPT !.nodes =
         [p \in DOMAIN pm.nodes \cup {file.path} |->
            IF p = file.path THEN NodeOf(file)
            ELSE IF p = parent
                 THEN [pm.nodes[p] EXCEPT !.children = Append(@, file.path)]
                 ELSE pm.nodes[p]]]

\* Lines 50-68: one pass of the loop.  pathMap holds references, so a child
\* is kept as the key of its node.  Pushing onto the children of a node that
\* has none (a file) throws a TypeError.
Attach(pm, file) ==
  LET parent == Dirname(file.path)
  IN  IF pm.threw \/ parent \notin DOMAIN pm.nodes THEN pm
      ELSE IF pm.nodes[parent].type # "directory"
      THEN [pm EXCEPT !.threw = TRUE]
      ELSE [pm EXCEPT !.nodes =
              [p \in DOMAIN pm.nodes \cup {file.path} |->
                 IF p = file.path THEN NodeOf(file)
                 ELSE IF p = parent
                      THEN [pm.nodes[p] EXCEPT
                              !.children = Append(@, file.path)]
                      ELSE pm.nodes[p]]]

RECURSIVE AttachAll(_, _, _)
\* Lines 50-68: the loop from the i-th record on.
AttachAll(pm, fs, i) ==
  IF i > Len(fs) THEN pm ELSE AttachAll(Attach(pm, fs[i]), fs, i + 1)

\* Lines 34-71: the nodes built; the value returned is the children of Root.
BuildFileTree(files) == AttachAll(InitialNodes, SortByDepth(files), 1)

RECURSIVE Nested(_, _)
\* The node at p with its children in place of their keys.
Nested(nodes, p) ==
  IF nodes[p].type = "directory"
  THEN [name |-> nodes[p].name, type |-> nodes[p].type,
        children |-> [i \in DOMAIN nodes[p].children |->
                        Nested(nodes, nodes[p].children[i])]]
  ELSE [name |-> nodes[p].name, type |-> nodes[p].type]

\* Line 70: root.children
Returned(t) == Nested(t.nodes, Root).children

NoTree == [called |-> FALSE, threw |-> FALSE, nodes |-> InitialNodes.nodes]

\* A call of buildFileTree.  The function keeps no state between calls, so
\* a behaviour holds one call.
BuildCall(files) ==
  /\ ~tree.called
  /\ treeIn' = files
  /\ tree' = [called |-> TRUE,
              threw |-> BuildFileTree(files).threw,
              nodes |-> BuildFileTree(files).nodes]
  /\ UNCHANGED <<backendVars, fmtVars, clientVars, filterVars>>

----------------------------------------------------------------------------
\* Store operations

\* An hset whose key does not depend on the job id.
HSetSharedKey(store, j, fields) ==
  [k \in DOMAIN store |-> [f \in DOMAIN store[k] |->
      IF f \in DOMAIN fields THEN fields[f] ELSE store[k][f]]]

\* jobQueue.hmset / hset: sets the given fields, keeps the others.
HSet(store, j, fields) ==
  [store EXCEPT ![j] = [f \in DOMAIN store[j] |->
      IF f \in DOMAIN fields THEN fields[f] ELSE store[j][f]]]

\* jobQueue.hgetall
HGetAll(store, j) == store[j]

Init ==
  /\ jobStore = [j \in JobIds |-> EmptyHash]
  /\ cache = [j \in JobIds |-> Absent]
  /\ nextId = 1
  /\ pc = [j \in JobIds |-> "idle"]
  /\ req = [j \in JobIds |-> Undefined]
  /\ inspect = [j \in JobIds |-> "none"]
  /\ container = [j \in JobIds |-> "none"]
  /\ err = [j \in JobIds |-> "none"]
  /\ cacheWritten = [j \in JobIds |-> Absent]
  /\ resultsReq = 0
  /\ resp = NoResp
  /\ fpc = [f \in FetchIds |-> "idle"]
  /\ fcontainer = [f \in FetchIds |-> "none"]
  /\ ferr = [f \in FetchIds |-> "none"]
  /\ fmtIn = << >>
  /\ fmtOut = << >>
  /\ treeIn = << >>
  /\ tree = NoTree
  /\ cpc = "idle"
  /\ csent = 0
  /\ cfetches = 0
  /\ ctimers = << >>
  /\ cresults = 0
  /\ creply = "none"
  /\ cerror = "null"
  /\ cdata = NoResp
  /\ hasData = FALSE
  /\ inspectionFiles = << >>
  /\ receivedFiles = << >>
  /\ searchTerm = ""
  /\ filteredFiles = << >>

----------------------------------------------------------------------------
\* POST /api/inspect

\* Lines 182-186: the request arrives, uuidv4() gives the id, hmset is issued.
InspectRequest(img) ==
  /\ nextId <= MaxJobs
  /\ pc[nextId] = "idle"
  /\ pc' = [pc EXCEPT ![nextId] = "hmset"]
  /\ req' = [req EXCEPT ![nextId] = img]
  /\ nextId' = nextId + 1
  /\ resp' = NoResp
  /\ UNCHANGED <<auxVars, fileVars, jobStore, cache, inspect, container, err, cacheWritten, resultsReq>>

\* A handler that awaits processJob before it answers.
HmsetOkAwaited(j) ==
  \/ /\ pc[j] = "hmset"
     /\ jobStore' = HSet(jobStore, j,
           [imageUrl |-> ToArg(req[j]), jobId |-> j, status |-> "pending"])
     /\ pc' = [pc EXCEPT ![j] = "pull"]
     /\ resp' = NoResp
     /\ UNCHANGED <<auxVars, fileVars, cache, nextId, req, inspect, container, err, cacheWritten, resultsReq>>
  \/ /\ Ended(pc[j])
     /\ resp = NoResp
     /\ resp' = [NoResp EXCEPT !.kind = "inspect", !.job = j, !.code = 200]
     /\ UNCHANGED <<auxVars, fileVars, jobStore, cache, nextId, pc, req, inspect, container, err,
                    cacheWritten, resultsReq>>

\* Lines 186-196: hmset resolved; processJob is called and runs up to its
\* first await (docker.pull), its promise is not awaited, and the job id is
\* sent in the same turn.
HmsetOk(j) ==
  /\ pc[j] = "hmset"
  /\ jobStore' = HSet(jobStore, j,
        [imageUrl |-> ToArg(req[j]), jobId |-> j, status |-> "pending"])
  /\ pc' = [pc EXCEPT ![j] = "pull"]
  /\ resp' = [NoResp EXCEPT !.kind = "inspect", !.job = j, !.code = 200]
  /\ UNCHANGED <<auxVars, fileVars, cache, nextId, req, inspect, container, err, cacheWritten, resultsReq>>

\* A handler that goes on when hmset rejected: it dispatches the pipeline and
\* sends the job id.
HmsetFailIgnored(j) ==
  /\ pc[j] = "hmset"
  /\ pc' = [pc EXCEPT ![j] = "pull"]
  /\ resp' = [NoResp EXCEPT !.kind = "inspect", !.job = j, !.code = 200]
  /\ UNCHANGED <<auxVars, fileVars, jobStore, cache, nextId, req, inspect, container, err, cacheWritten, resultsReq>>

\* Lines 197-199: hmset rejected; the handler's catch answers 400.
HmsetFail(j) ==
  /\ pc[j] = "hmset"
  /\ pc' = [pc EXCEPT ![j] = "badRequest"]
  /\ resp' = [NoResp EXCEPT !.kind = "inspect", !.code = 400, !.error = "hmset"]
  /\ UNCHANGED <<auxVars, fileVars, jobStore, cache, nextId, req, inspect, container, err, cacheWritten, resultsReq>>

----------------------------------------------------------------------------
\* Worker.processJob

\* An await of the try block resolved without touching a store.
Advance(j, step) ==
  /\ pc[j] = step
  /\ pc' = [pc EXCEPT ![j] = NextPc(step)]
  /\ resp' = NoResp
  /\ UNCHANGED <<auxVars, fileVars, jobStore, cache, nextId, req, err, cacheWritten, resultsReq>>

\* An await of the try block rejected: control moves to the catch (line 158),
\* which issues hset {status: 'failed', error: error.message}.  The locals
\* of the try block are out of scope there.
Throw(j, step) ==
  /\ pc[j] = step
  /\ pc' = [pc EXCEPT ![j] = "catch"]
  /\ err' = [err EXCEPT ![j] = step]
  /\ inspect' = [inspect EXCEPT ![j] = "none"]
  /\ resp' = NoResp
  /\ UNCHANGED <<auxVars, fileVars, jobStore, cache, nextId, req, cacheWritten, resultsReq>>

PullOk(j) ==
  /\ Resolvable(req[j])
  /\ Advance(j, "pull")
  /\ UNCHANGED <<inspect, container>>

PullFail(j) == Throw(j, "pull") /\ UNCHANGED container

InspectOk(j) ==
  /\ Advance(j, "inspect")
  /\ \E e \in EnvValues : inspect' = [inspect EXCEPT ![j] = e]
  /\ UNCHANGED container

InspectFail(j) == Throw(j, "inspect") /\ UNCHANGED container

CreateOk(j) ==
  /\ Advance(j, "create")
  /\ container' = [container EXCEPT ![j] = "created"]
  /\ UNCHANGED inspect

CreateFail(j) == Throw(j, "create") /\ UNCHANGED container

\* listFiles: container.getArchive
GetArchiveOk(j) == Advance(j, "getArchive") /\ UNCHANGED <<inspect, container>>

GetArchiveFail(j) == Throw(j, "getArchive") /\ UNCHANGED container

\* listFiles: extractTarStream, then buildFileTree in the same turn
ExtractOk(j) == Advance(j, "extract") /\ UNCHANGED <<inspect, container>>

ExtractFail(j) == Throw(j, "extract") /\ UNCHANGED container

RemoveOk(j) ==
  /\ Advance(j, "remove")
  /\ container' = [container EXCEPT ![j] = "removed"]
  /\ UNCHANGED inspect

RemoveFail(j) ==
  /\ Throw(j, "remove")
  /\ container' = [container EXCEPT ![j] = "removeFailed"]

\* A setex that caches only part of the result.
SetexOkPartial(j) ==
  /\ pc[j] = "setex"
  /\ cache' = [cache EXCEPT ![j] =
        Stringify([BuildResult(req[j], inspect[j]) EXCEPT !.files = Undefined])]
  /\ cacheWritten' = [cacheWritten EXCEPT ![j] = cache'[j]]
  /\ pc' = [pc EXCEPT ![j] = NextPc("setex")]
  /\ resp' = NoResp
  /\ UNCHANGED <<auxVars, fileVars, jobStore, nextId, req, inspect, container, err, resultsReq>>

\* Lines 128-150: the result object is built and its text stored with a TTL.
SetexOk(j) ==
  /\ pc[j] = "setex"
  /\ cache' = [cache EXCEPT ![j] = Stringify(BuildResult(req[j], inspect[j]))]
  /\ cacheWritten' = [cacheWritten EXCEPT ![j] = cache'[j]]
  /\ pc' = [pc EXCEPT ![j] = NextPc("setex")]
  /\ resp' = NoResp
  /\ UNCHANGED <<auxVars, fileVars, jobStore, nextId, req, inspect, container, err, resultsReq>>

SetexFail(j) == Throw(j, "setex") /\ UNCHANGED container

\* Lines 153-156
HsetCompletedOk(j) ==
  /\ pc[j] = "hsetCompleted"
  /\ jobStore' = HSet(jobStore, j,
        [status |-> "completed",
         result |-> Stringify(BuildResult(req[j], inspect[j]))])
  /\ pc' = [pc EXCEPT ![j] = NextPc("hsetCompleted")]
  /\ inspect' = [inspect EXCEPT ![j] = "none"]
  /\ resp' = NoResp
  /\ UNCHANGED <<auxVars, fileVars, cache, nextId, req, container, err, cacheWritten, resultsReq>>

HsetCompletedFail(j) == Throw(j, "hsetCompleted") /\ UNCHANGED container

\* A catch that records the error without the status.
CatchOkErrorOnly(j) ==
  /\ pc[j] = "catch"
  /\ jobStore' = HSet(jobStore, j, [error |-> err[j]])
  /\ pc' = [pc EXCEPT ![j] = "done"]
  /\ err' = [err EXCEPT ![j] = "none"]
  /\ resp' = NoResp
  /\ UNCHANGED <<auxVars, fileVars, cache, nextId, req, inspect, container, cacheWritten, resultsReq>>

\* Lines 159-162: the hset of the catch resolved; processJob's promise resolves.
CatchOk(j) ==
  /\ pc[j] = "catch"
  /\ jobStore' = HSet(jobStore, j, [status |-> "failed", error |-> err[j]])
  /\ pc' = [pc EXCEPT ![j] = "done"]
  /\ err' = [err EXCEPT ![j] = "none"]
  /\ resp' = NoResp
  /\ UNCHANGED <<auxVars, fileVars, cache, nextId, req, inspect, container, cacheWritten, resultsReq>>

\* Lines 159-162 and 194: the hset of the catch rejected; processJob's promise
\* rejects and .catch(console.error) logs it.
CatchFail(j) ==
  /\ pc[j] = "catch"
  /\ pc' = [pc EXCEPT ![j] = "unhandled"]
  /\ err' = [err EXCEPT ![j] = "none"]
  /\ resp' = NoResp
  /\ UNCHANGED <<auxVars, fileVars, jobStore, cache, nextId, req, inspect, container, cacheWritten, resultsReq>>

\* One step of job j's submission and pipeline.
JobStep(j) ==
  \/ HmsetOk(j) \/ HmsetFail(j)
  \/ PullOk(j) \/ PullFail(j)
  \/ InspectOk(j) \/ InspectFail(j)
  \/ CreateOk(j) \/ CreateFail(j)
  \/ GetArchiveOk(j) \/ GetArchiveFail(j)
  \/ ExtractOk(j) \/ ExtractFail(j)
  \/ RemoveOk(j) \/ RemoveFail(j)
  \/ SetexOk(j) \/ SetexFail(j)
  \/ HsetCompletedOk(j) \/ HsetCompletedFail(j)
  \/ CatchOk(j) \/ CatchFail(j)

\* The TTL of result:<id> (3600 s) elapsed.
Expire(j) ==
  /\ cache[j] # Absent
  /\ cache' = [cache EXCEPT ![j] = Absent]
  /\ resp' = NoResp
  /\ UNCHANGED <<auxVars, fileVars, jobStore, nextId, pc, req, inspect, container, err, cacheWritten, resultsReq>>

----------------------------------------------------------------------------
\* GET /api/status/:jobId

\* Lines 204-216: the response computed from what hgetall returned.
StatusResponse(j) ==
  LET jobData == HGetAll(jobStore, j)
  IN  IF NotJobData(jobData)
      THEN [NoResp EXCEPT !.kind = "status", !.job = j, !.code = 404,
                          !.error = "Job not found"]
      ELSE [kind |-> "status", job |-> j, code |-> 200,
            status |-> jobData.status,
            result |-> IF Truthy(jobData.result)
                       THEN <<Parse(jobData.result)>> ELSE Absent,
            error |-> IF TruthyStr(jobData.error) THEN jobData.error ELSE "null"]

GetStatus(j) ==
  /\ resp' = StatusResponse(j)
  /\ UNCHANGED <<auxVars, fileVars, jobStore, cache, nextId, pc, req, inspect, container, err,
                 cacheWritten, resultsReq>>

\* Lines 217-219: hgetall rejected.
GetStatusFail(j) ==
  /\ resp' = [NoResp EXCEPT !.kind = "status", !.code = 500, !.error = "hgetall"]
  /\ UNCHANGED <<auxVars, fileVars, jobStore, cache, nextId, pc, req, inspect, container, err,
                 cacheWritten, resultsReq>>

----------------------------------------------------------------------------
\* GET /api/results/:jobId

ResultsOk(j, text) ==
  [NoResp EXCEPT !.kind = "results", !.job = j, !.code = 200,
                 !.result = <<Parse(text)>>]

ResultsNotFound(j) ==
  [NoResp EXCEPT !.kind = "results", !.job = j, !.code = 404,
                 !.error = "Results not found"]

\* A results route without the fallback to the job record.
ResultsFromJobNoFallback(j, jobData) == ResultsNotFound(j)

\* Lines 232-238: the answer once the cache missed.
ResultsFromJob(j, jobData) ==
  IF NotJobData(jobData) \/ jobData.status # "completed"
  THEN ResultsNotFound(j)
  ELSE ResultsOk(j, jobData.result)

\* Lines 225-229: redis.get resolved; a hit is answered at once, a miss
\* issues hgetall.
GetResultsCacheRead(j) ==
  /\ resultsReq = 0
  /\ IF Truthy(cache[j])
     THEN resp' = ResultsOk(j, cache[j]) /\ resultsReq' = 0
     ELSE resp' = NoResp /\ resultsReq' = j
  /\ UNCHANGED <<auxVars, fileVars, jobStore, cache, nextId, pc, req, inspect, container, err,
                 cacheWritten>>

\* Lines 232-238: hgetall resolved.
GetResultsJobRead ==
  /\ resultsReq # 0
  /\ resp' = ResultsFromJob(resultsReq, HGetAll(jobStore, resultsReq))
  /\ resultsReq' = 0
  /\ UNCHANGED <<auxVars, fileVars, jobStore, cache, nextId, pc, req, inspect, container, err,
                 cacheWritten>>

\* Lines 239-241: redis.get or hgetall rejected.
GetResultsFail(j) ==
  /\ resultsReq \in {0, j}
  /\ resp' = [NoResp EXCEPT !.kind = "results", !.code = 500, !.error = "redis"]
  /\ resultsReq' = 0
  /\ UNCHANGED <<auxVars, fileVars, jobStore, cache, nextId, pc, req, inspect, container, err,
                 cacheWritten>>

----------------------------------------------------------------------------
\* GET /api/file/:imageName

\* The variables of the job pipeline and of the other routes.
jobVars ==
  <<jobStore, cache, nextId, pc, req, inspect, container, err, cacheWritten,
    resultsReq>>

FileNotFound(msg) ==
  [NoResp EXCEPT !.kind = "file", !.code = 404, !.error = msg]

\* Lines 246-254: the request arrives and createContainer is issued.
FileRequest(f) ==
  /\ fpc[f] = "idle"
  /\ IF f = 1 THEN TRUE ELSE fpc[f - 1] # "idle"
  /\ fpc' = [fpc EXCEPT ![f] = "create"]
  /\ resp' = NoResp
  /\ UNCHANGED <<auxVars, jobVars, fcontainer, ferr>>

\* Lines 250-258: the container exists; getFileContents issues getArchive.
FileCreateOk(f) ==
  /\ fpc[f] = "create"
  /\ fcontainer' = [fcontainer EXCEPT ![f] = "created"]
  /\ fpc' = [fpc EXCEPT ![f] = "getArchive"]
  /\ resp' = NoResp
  /\ UNCHANGED <<auxVars, jobVars, ferr>>

\* Lines 250 and 264-266: createContainer rejected, outside the inner try.
FileCreateFail(f) ==
  /\ fpc[f] = "create"
  /\ fpc' = [fpc EXCEPT ![f] = "done"]
  /\ resp' = FileNotFound("create")
  /\ UNCHANGED <<auxVars, jobVars, fcontainer, ferr>>

\* Line 173
FileGetArchiveOk(f) ==
  /\ fpc[f] = "getArchive"
  /\ fpc' = [fpc EXCEPT ![f] = "extract"]
  /\ resp' = NoResp
  /\ UNCHANGED <<auxVars, jobVars, fcontainer, ferr>>

\* Line 173 rejected: the finally (line 262) issues container.remove()
\* with the exception pending.
FileGetArchiveFail(f) ==
  /\ fpc[f] = "getArchive"
  /\ fpc' = [fpc EXCEPT ![f] = "remove"]
  /\ ferr' = [ferr EXCEPT ![f] = "getArchive"]
  /\ resp' = NoResp
  /\ UNCHANGED <<auxVars, jobVars, fcontainer>>

\* A file route that drops the cached results when it has read the file.
FileExtractOkFlush(f) ==
  /\ fpc[f] = "extract"
  /\ fpc' = [fpc EXCEPT ![f] = "remove"]
  /\ resp' = [NoResp EXCEPT !.kind = "file", !.code = 200]
  /\ cache' = [j \in JobIds |-> Absent]
  /\ UNCHANGED <<auxVars, jobStore, nextId, pc, req, inspect, container, err,
                 cacheWritten, resultsReq, fcontainer, ferr>>

\* Lines 174-175 and 259-262: the file data is sent, then the finally
\* issues container.remove().
FileExtractOk(f) ==
  /\ fpc[f] = "extract"
  /\ fpc' = [fpc EXCEPT ![f] = "remove"]
  /\ resp' = [NoResp EXCEPT !.kind = "file", !.code = 200]
  /\ UNCHANGED <<auxVars, jobVars, fcontainer, ferr>>

\* Line 174 rejected: the finally issues container.remove() with the
\* exception pending.
FileExtractFail(f) ==
  /\ fpc[f] = "extract"
  /\ fpc' = [fpc EXCEPT ![f] = "remove"]
  /\ ferr' = [ferr EXCEPT ![f] = "extract"]
  /\ resp' = NoResp
  /\ UNCHANGED <<auxVars, jobVars, fcontainer>>

\* Lines 262-266: remove resolved; a pending exception reaches the outer
\* catch, which answers 404.
FileRemoveOk(f) ==
  /\ fpc[f] = "remove"
  /\ fcontainer' = [fcontainer EXCEPT ![f] = "removed"]
  /\ fpc' = [fpc EXCEPT ![f] = "done"]
  /\ resp' = IF ferr[f] # "none" THEN FileNotFound(ferr[f]) ELSE NoResp
  /\ ferr' = [ferr EXCEPT ![f] = "none"]
  /\ UNCHANGED <<auxVars, jobVars>>

\* Lines 262-266: remove rejected; its error replaces a pending one and
\* reaches the outer catch.  When the file data was already sent, the 404
\* of the catch cannot be sent any more (res.json throws) and the handler's
\* promise rejects.
FileRemoveFail(f) ==
  /\ fpc[f] = "remove"
  /\ fcontainer' = [fcontainer EXCEPT ![f] = "removeFailed"]
  /\ IF ferr[f] # "none"
     THEN fpc' = [fpc EXCEPT ![f] = "done"] /\ resp' = FileNotFound("remove")
     ELSE fpc' = [fpc EXCEPT ![f] = "unhandled"] /\ resp' = NoResp
  /\ ferr' = [ferr EXCEPT ![f] = "none"]
  /\ UNCHANGED <<auxVars, jobVars>>

\* One step of file request f.
FileStep(f) ==
  \/ FileRequest(f)
  \/ FileCreateOk(f) \/ FileCreateFail(f)
  \/ FileGetArchiveOk(f) \/ FileGetArchiveFail(f)
  \/ FileExtractOk(f) \/ FileExtractFail(f)
  \/ FileRemoveOk(f) \/ FileRemoveFail(f)

----------------------------------------------------------------------------
\* DockerInspector.jsx: handleInspect and pollJobStatus
\*
\* The server assigns its ids in the order of the requests, so the job of
\* the client's n-th submission is job n.  A reply is computed from the
\* stores at the moment the client takes it.

MaxSubmits == 1

\* Line 135: the delay of the timeout, in ms.
PollDelay == 1000

\* The button is disabled while the image field is empty (line 207).
ClientImages == {"alpine:latest"}

\* Lines 143-155: the button is enabled while nothing is loading; the
\* states are reset and the POST is sent.
HandleInspect ==
  /\ cpc \in {"idle", "done"}
  /\ csent < MaxSubmits
  /\ cpc' = "posting"
  /\ csent' = csent + 1
  /\ cerror' = "null"
  /\ cdata' = NoResp
  /\ creply' = "none"
  /\ UNCHANGED <<backendVars, fmtVars, treeVars, filterVars, cfetches,
                 ctimers, cresults>>

\* Lines 157-167 and 122: the reply to the POST arrived.  A 400 throws and
\* ends the submission with an error; otherwise pollJobStatus(job_id) sends
\* the first status query.
PostReceive ==
  /\ cpc = "posting"
  /\ pc[csent] \notin {"idle", "hmset"}
  /\ IF pc[csent] = "badRequest"
     THEN /\ cerror' = "Failed to start inspection"
          /\ cpc' = "done"
          /\ UNCHANGED cfetches
     ELSE /\ cfetches' = cfetches + 1
          /\ cpc' = "polling"
          /\ UNCHANGED cerror
  /\ UNCHANGED <<backendVars, fmtVars, treeVars, filterVars, csent, ctimers,
                 cresults, creply, cdata>>

\* Lines 149 and 164-167: the POST was rejected by the network.
PostFail ==
  /\ cpc = "posting"
  /\ cerror' = "fetch"
  /\ cpc' = "done"
  /\ UNCHANGED <<backendVars, fmtVars, treeVars, filterVars, csent, cfetches,
                 ctimers, cresults, creply, cdata>>

\* Lines 123-136: what pollJobStatus does with the body of a reply.
OnStatus(data) ==
  /\ cfetches' = cfetches - 1
  /\ creply' = data.status
  /\ IF data.status = "completed"
     THEN /\ cresults' = cresults + 1
          /\ UNCHANGED <<cerror, cpc, ctimers>>
     ELSE IF data.status = "failed"
     THEN /\ cerror' = data.error
          /\ cpc' = "done"
          /\ UNCHANGED <<cresults, ctimers>>
     ELSE /\ ctimers' = Append(ctimers, PollDelay)
          /\ UNCHANGED <<cresults, cerror, cpc>>
  /\ UNCHANGED <<backendVars, fmtVars, treeVars, filterVars, csent, cdata>>

\* Lines 122-136: the reply to a status query arrived, with the status of
\* the job.
StatusReceive ==
  /\ cfetches > 0
  /\ OnStatus(StatusResponse(csent))

\* Lines 122-136: the status route answered 500; the body has no status.
StatusReceiveError ==
  /\ cfetches > 0
  /\ OnStatus([NoResp EXCEPT !.kind = "status", !.code = 500,
                             !.error = "hgetall"])

\* Lines 122 and 137-140: the status query was rejected by the network.
StatusFail ==
  /\ cfetches > 0
  /\ cfetches' = cfetches - 1
  /\ creply' = "rejected"
  /\ cerror' = "fetch"
  /\ cpc' = "done"
  /\ UNCHANGED <<backendVars, fmtVars, treeVars, filterVars, csent, ctimers,
                 cresults, cdata>>

\* A poller armed with setInterval: the timer stays armed when it fires.
TimerFireInterval ==
  /\ ctimers # << >>
  /\ cfetches' = cfetches + 1
  /\ UNCHANGED <<backendVars, fmtVars, treeVars, filterVars, cpc, csent,
                 ctimers, cresults, creply, cerror, cdata>>

\* Lines 135 and 122: the timeout fired; pollJobStatus sends a status query.
TimerFire ==
  /\ ctimers # << >>
  /\ ctimers' = Tail(ctimers)
  /\ cfetches' = cfetches + 1
  /\ UNCHANGED <<backendVars, fmtVars, treeVars, filterVars, cpc, csent,
                 cresults, creply, cerror, cdata>>

\* Lines 126-129: the reply to the result fetch arrived; its body, whatever
\* the code of the reply, becomes inspectionData.
ResultsReceive ==
  /\ cresults > 0
  /\ cresults' = cresults - 1
  /\ cdata' = IF Truthy(cache[csent])
              THEN ResultsOk(csent, cache[csent])
              ELSE ResultsFromJob(csent, HGetAll(jobStore, csent))
  /\ cpc' = "done"
  /\ UNCHANGED <<backendVars, fmtVars, treeVars, filterVars, csent, cfetches,
                 ctimers, creply, cerror>>

\* Lines 126 and 137-140: the result fetch was rejected by the network.
ResultsFail ==
  /\ cresults > 0
  /\ cresults' = cresults - 1
  /\ cerror' = "fetch"
  /\ cpc' = "done"
  /\ UNCHANGED <<backendVars, fmtVars, treeVars, filterVars, csent, cfetches,
                 ctimers, creply, cdata>>

\* One step of the client.
ClientStep ==
  \/ HandleInspect
  \/ PostReceive \/ PostFail
  \/ StatusReceive \/ StatusReceiveError \/ StatusFail
  \/ TimerFire
  \/ ResultsReceive \/ ResultsFail

----------------------------------------------------------------------------
\* DockerInspector.jsx: filteredFiles
\*
\* The file tree arrives as JSON, so no node is shared between two lists and
\* a node can be written as a value with its children inside.  A name and a
\* search term are sequences of characters.

CharsOf(str) ==
  CASE str = "" -> << >>
    [] str = "a" -> <<"a">>
    [] str = "b" -> <<"b">>
    [] str = "B" -> <<"B">>
    [] str = "c.txt" -> <<"c", ".", "t", "x", "t">>
    [] str = "txt" -> <<"t", "x", "t">>
    [] str = "z" -> <<"z">>

\* What the user types into the search field.
TermSamples == {"", "a", "b", "B", "txt", "z"}

\* String.prototype.toLowerCase, character by character.
ToLowerCase(cs) == [i \in DOMAIN cs |-> IF cs[i] = "B" THEN "b" ELSE cs[i]]

\* String.prototype.includes
Includes(hay, needle) ==
  \E i \in 0..(Len(hay) - Len(needle)) :
    SubSeq(hay, i + 1, i + Len(needle)) = needle

\* Line 180
Matches(node, term) ==
  Includes(ToLowerCase(CharsOf(node.name)), ToLowerCase(CharsOf(term)))

\* Line 181: node.children is set (an empty array counts).
HasChildren(node) == "children" \in DOMAIN node

RECURSIVE FilterNodes(_, _)
RECURSIVE Visited(_, _)

\* Lines 181-182: the node after filterNodes visited it; its children are
\* assigned in place.
Visited(node, term) ==
  IF HasChildren(node)
  THEN [node EXCEPT !.children = FilterNodes(node.children, term)]
  ELSE node

\* Lines 178-187: the list filterNodes returns; it holds the nodes visited.
FilterNodes(nodes, term) ==
  SelectSeq([i \in DOMAIN nodes |-> Visited(nodes[i], term)],
            LAMBDA n : Matches(n, term) \/ (HasChildren(n) /\ Len(n.children) > 0))

\* Lines 128 and 174-175: the result arrived; with the search term empty the
\* memo is the list itself.
SetInspectionData(files) ==
  /\ ~hasData
  /\ ~BuildFileTree(files).threw
  /\ hasData' = TRUE
  /\ inspectionFiles' = Returned(BuildFileTree(files))
  /\ receivedFiles' = inspectionFiles'
  /\ filteredFiles' = inspectionFiles'
  /\ UNCHANGED <<backendVars, fmtVars, treeVars, clientVars, searchTerm>>

\* Lines 285 and 174-190: the search term changed and the memo is computed
\* again.  filterNodes is given a copy of the top list, whose nodes are the
\* nodes of inspectionData.files.
SetSearchTerm(term) ==
  /\ hasData
  /\ term # searchTerm
  /\ searchTerm' = term
  /\ IF term = ""
     THEN /\ filteredFiles' = inspectionFiles
          /\ UNCHANGED inspectionFiles
     ELSE /\ filteredFiles' = FilterNodes(inspectionFiles, term)
          /\ inspectionFiles' =
               [i \in DOMAIN inspectionFiles |->
                  Visited(inspectionFiles[i], term)]
  /\ UNCHANGED <<backendVars, fmtVars, treeVars, clientVars, hasData,
                 receivedFiles>>

----------------------------------------------------------------------------
\* Specifications

\* Submissions, the pipelines of all jobs and the expiry of cache entries.
NextPipeline ==
  \/ \E img \in ImageInputs : InspectRequest(img)
  \/ \E j \in JobIds : JobStep(j)
  \/ \E j \in JobIds : Expire(j)

SpecPipeline == Init /\ [][NextPipeline]_vars

\* The pipeline with clients of the status route.
Next ==
  \/ NextPipeline
  \/ \E j \in JobIds : GetStatus(j)
  \/ \E j \in JobIds : GetStatusFail(j)

Spec == Init /\ [][Next]_vars

\* The pipeline with clients of the results route.
NextResults ==
  \/ NextPipeline
  \/ \E j \in JobIds : GetResultsCacheRead(j)
  \/ GetResultsJobRead
  \/ \E j \in JobIds : GetResultsFail(j)

SpecResults == Init /\ [][NextResults]_vars

\* File requests running next to the submissions and pipelines.
NextFile ==
  \/ \E f \in FetchIds : FileStep(f)
  \/ NextPipeline

SpecFile == Init /\ [][NextFile]_vars

\* File requests next to the submission and processing of FileJobs jobs.
NextFetch ==
  \/ \E f \in FetchIds : FileStep(f)
  \/ \E img \in ImageInputs : nextId <= FileJobs /\ InspectRequest(img)
  \/ \E j \in JobIds : JobStep(j)

SpecFetch == Init /\ [][NextFetch]_vars

\* Calls of formatSize.
NextFormat == \E d \in Sizes : FormatCall(d)

SpecFormat == Init /\ [][NextFormat]_vars

\* The polling client with the server it talks to: the submissions are the
\* client's.
NextClient ==
  \/ ClientStep
  \/ \E img \in ClientImages : nextId <= csent /\ InspectRequest(img)
  \/ \E j \in JobIds : JobStep(j)

SpecClient == Init /\ [][NextClient]_vars

\* The file browser: a result arrives and the user types search terms.
NextFilter ==
  \/ \E files \in FileLists : SetInspectionData(files)
  \/ \E term \in TermSamples : SetSearchTerm(term)

SpecFilter == Init /\ [][NextFilter]_vars

\* Calls of buildFileTree.
NextTree == \E files \in FileLists : BuildCall(files)

SpecTree == Init /\ [][NextTree]_vars

\* The pipeline alone, where every call issued by a job eventually resolves
\* or rejects and the event loop runs every continuation that is ready.
LiveSpec ==
  /\ Init
  /\ [][NextPipeline]_vars
  /\ \A j \in JobIds : WF_vars(JobStep(j))

----------------------------------------------------------------------------
\* Properties

\* Position of a status value along pending -> processing -> terminal.
Rank(st) ==
  CASE st = Undefined    -> 0
    [] st = "pending"    -> 1
    [] st = "processing" -> 2
    [] Terminal(st)      -> 3

\* C1: the status a status query reports for a job never moves backwards
\* along pending -> processing -> {completed, failed}, and once it reports
\* completed or failed no step changes the job's record or the answer of
\* the status query.
C1_StatusMonotonic ==
  [][\A j \in JobIds :
       /\ Rank(StatusResponse(j).status) <= Rank(StatusResponse(j)'.status)
       /\ Terminal(jobStore[j].status) =>
             /\ jobStore'[j] = jobStore[j]
             /\ StatusResponse(j)' = StatusResponse(j)]_vars

\* A status query answered with a failed job while another job is one step
\* before its own terminal write.
C1_Witness ==
  \E j, k \in JobIds :
    /\ j # k
    /\ resp.kind = "status" /\ resp.job = j /\ resp.status = "failed"
    /\ resp.error = "extract"
    /\ pc[k] = "hsetCompleted"

\* C2: while the pipeline of a job runs (after dispatch, before the terminal
\* write) its record's status is processing.
C2_ProcessingWhileRunning ==
  \A j \in JobIds :
    pc[j] \in PipelineSteps => jobStore[j].status = "processing"

\* C3: a processJob that has ended and had created a container has invoked
\* the container's remove.
C3_ContainerRemoved ==
  \A j \in JobIds :
    (Ended(pc[j]) /\ container[j] # "none")
      => container[j] \in {"removed", "removeFailed"}

\* C4: when processJob leaves its catch, the failure it caught is recorded:
\* the job's status is failed and its error is the failure's message.
C4_FailureRecorded ==
  [][\A j \in JobIds :
       (pc[j] = "catch" /\ pc'[j] # "catch")
         => /\ jobStore'[j].status = "failed"
            /\ jobStore'[j].error = err[j]]_vars

\* C5: every dispatched job eventually has a terminal status.
C5_EventuallyTerminal ==
  \A j \in JobIds :
    (pc[j] = "pull") ~> Terminal(jobStore[j].status)

\* C6: a completed job's cache entry has been written, and a results fetch
\* answered while the job is completed and its cache entry is present
\* carries the same content as the result field of the status query.
C6_CacheJobConsistent ==
  \A j \in JobIds :
    jobStore[j].status = "completed" =>
      /\ cacheWritten[j] # Absent
      /\ Truthy(cache[j]) => <<Parse(cache[j])>> = StatusResponse(j).result
      /\ (resp.kind = "results" /\ resp.job = j /\ Truthy(cache[j]))
           => (resp.code = 200 /\ resp.result = StatusResponse(j).result)

\* A results fetch answered from the cache for a completed job.
C6_Witness ==
  \E j \in JobIds :
    /\ jobStore[j].status = "completed"
    /\ Truthy(cache[j])
    /\ resp.kind = "results" /\ resp.job = j /\ resp.code = 200

\* C7: a results fetch whose reads succeed answers a cache hit with the
\* cached result; after a miss it answers a completed job with the result
\* of the job record, which equals what was cached, and anything else
\* (unknown, pending or failed job) with 404.
C7_ResultResolution ==
  [][\A j \in JobIds :
       (resp'.kind = "results" /\ resp'.job = j /\ resp'.code # 500) =>
          IF resultsReq = 0
          THEN /\ Truthy(cache[j])
               /\ resp'.code = 200
               /\ resp'.result = <<Parse(cache[j])>>
          ELSE /\ resultsReq = j
               /\ IF jobStore[j].status = "completed"
                  THEN /\ resp'.code = 200
                       /\ resp'.result = <<Parse(cacheWritten[j])>>
                  ELSE resp'.code = 404]_vars

\* A results fetch answered from the job record after the cache entry of a
\* completed job expired.
C7_Witness ==
  \E j \in JobIds :
    /\ resp.kind = "results" /\ resp.job = j /\ resp.code = 200
    /\ cache[j] = Absent
    /\ cacheWritten[j] # Absent

\* C8: a status query for an id that has no job record is answered 404.
C8_UnknownJobNotFound ==
  \A j \in JobIds :
    (resp.kind = "status" /\ resp.job = j /\ jobStore[j] = EmptyHash)
      => resp.code = 404

\* C9: a submission with an empty or missing image reference creates no
\* job record and dispatches no pipeline.
C9_EmptyImageRejected ==
  \A j \in JobIds :
    (pc[j] # "idle" /\ req[j] \in {"", Undefined}) =>
      /\ jobStore[j] = EmptyHash
      /\ pc[j] \in {"hmset", "badRequest"}

\* C10: the job id is sent in the turn that dispatches processJob, while the
\* job is not terminal; it is never sent from a later step of the job.
C10_SubmitDoesNotBlock ==
  [][\A j \in JobIds :
       (resp'.kind = "inspect" /\ resp'.code = 200 /\ resp'.job = j) =>
          /\ pc[j] = "hmset"
          /\ pc'[j] \in PipelineSteps
          /\ ~Terminal(jobStore'[j].status)]_vars

\* The caller holds the job id while the job is pending and its pull runs.
C10_Witness ==
  \E j \in JobIds :
    /\ resp.kind = "inspect" /\ resp.code = 200 /\ resp.job = j
    /\ jobStore[j].status = "pending"
    /\ pc[j] = "pull"

\* C11: a step of job j's submission or pipeline leaves the record and the
\* cache entry of every other job as they were.
C11_JobsIsolated ==
  [][\A j \in JobIds :
       pc'[j] # pc[j] =>
         \A k \in JobIds \ {j} :
           /\ jobStore'[k] = jobStore[k]
           /\ cache'[k] = cache[k]]_vars

\* One job has failed while the other, processed concurrently, is completed
\* and still has its cache entry.
C11_Witness ==
  \E j, k \in JobIds :
    /\ j # k
    /\ jobStore[j].status = "failed" /\ jobStore[j].error = "getArchive"
    /\ jobStore[k].status = "completed" /\ Truthy(cache[k])
    /\ jobStore[k].result = cache[k]

\* C12: a job record has a result only when completed, an error only when
\* failed, and never both.
C12_ResultErrorExclusive ==
  \A j \in JobIds :
    /\ Truthy(jobStore[j].result) => jobStore[j].status = "completed"
    /\ jobStore[j].error # Undefined => jobStore[j].status = "failed"
    /\ ~(Truthy(jobStore[j].result) /\ jobStore[j].error # Undefined)

\* A failed record with its error next to a completed record with its
\* result, the failure being that of the completed write's predecessor.
C12_Witness ==
  \E j, k \in JobIds :
    /\ jobStore[j].status = "failed" /\ jobStore[j].error = "setex"
    /\ jobStore[j].result = Absent
    /\ jobStore[k].status = "completed" /\ Truthy(jobStore[k].result)
    /\ jobStore[k].error = Undefined

\* C13: a job whose file listing succeeded and whose container removal
\* failed still ends completed with its result.
C13_RemovalFailureKeepsSuccess ==
  \A j \in JobIds :
    (pc[j] = "done" /\ container[j] = "removeFailed") =>
      /\ jobStore[j].status = "completed"
      /\ Truthy(jobStore[j].result)

\* C14: a step of a file request, whatever it is interleaved with, leaves
\* every job record and every cache entry as they were, and what it answers
\* carries nothing of a job: no job id, no status, no result.
C14_FetchFrame ==
  [][fpc' # fpc =>
       /\ jobStore' = jobStore
       /\ cache' = cache
       /\ resp'.kind \in {"none", "file"}
       /\ resp'.job = 0
       /\ resp'.status = Undefined
       /\ resp'.result = Absent]_vars

\* A file request is answered with the file data while a job, processed
\* concurrently, has written its cache entry and not yet its record.
C14_Witness ==
  \E f \in FetchIds, j \in JobIds :
    /\ resp.kind = "file" /\ resp.code = 200
    /\ fpc[f] = "remove"
    /\ Truthy(cache[j])
    /\ jobStore[j].status = "pending"

\* The highest digit of d that is set, 0 for the size 0.
TopDigit(d) ==
  IF \A i \in 1..Len(d) : d[i] = 0 THEN 0
  ELSE CHOOSE i \in 1..Len(d) : d[i] # 0 /\ \A m \in (i + 1)..Len(d) : d[m] = 0

\* The divisions the rule asks for: one per factor 1024, at most as many as
\* there are larger units.
Divisions(d) ==
  IF TopDigit(d) <= 1 THEN 0
  ELSE IF TopDigit(d) - 1 < Len(Units) - 1 THEN TopDigit(d) - 1
  ELSE Len(Units) - 1

RECURSIVE Pow(_, _)
Pow(b, n) == IF n = 0 THEN 1 ELSE b * Pow(b, n - 1)

RECURSIVE LowValue(_, _)
\* The value of the digits 1..k of d.
LowValue(d, k) == IF k = 0 THEN 0 ELSE d[k] * Pow(Kilo, k - 1) + LowValue(d, k - 1)

\* C19: formatSize divides by 1024 while the value is at least 1024 and a
\* larger unit remains among B, KB, MB, GB, and prints the value with one
\* decimal place and that unit: a size below 1024 stays in B, 1023 gives
\* "1023.0B", 1024 gives "1.0KB", 1536 gives "1.5KB", 1048576 gives "1.0MB",
\* and no size has a unit beyond GB.
C19_UnitSelection ==
  fmtOut # << >> =>
    LET k == Divisions(fmtIn)
        whole == fmtOut[1]
        tenth == fmtOut[3]
        frac == IF tenth = 0 /\ whole = IntPart(fmtIn, k) + 1 THEN 10 ELSE tenth
    IN  /\ Len(fmtOut) = 4
        /\ fmtOut[2] = "."
        /\ tenth \in 0..9
        /\ fmtOut[4] = Units[k + 1]
        /\ whole \in {IntPart(fmtIn, k), IntPart(fmtIn, k) + 1}
        /\ whole = IntPart(fmtIn, k) + 1 => tenth = 0
        \* up to MB the printed value is within half a tenth of the quotient
        /\ k <= 2 =>
              /\ 2 * frac * Pow(Kilo, k) - 20 * LowValue(fmtIn, k) <= Pow(Kilo, k)
              /\ 20 * LowValue(fmtIn, k) - 2 * frac * Pow(Kilo, k) <= Pow(Kilo, k)
        /\ TopDigit(fmtIn) <= 1 => fmtOut = <<fmtIn[1], ".", 0, "B">>
        /\ fmtIn = SizeOf(<<1023>>) => fmtOut = <<1023, ".", 0, "B">>
        /\ fmtIn = SizeOf(<<0, 1>>) => fmtOut = <<1, ".", 0, "KB">>
        /\ fmtIn = SizeOf(<<512, 1>>) => fmtOut = <<1, ".", 5, "KB">>
        /\ fmtIn = SizeOf(<<0, 0, 1>>) => fmtOut = <<1, ".", 0, "MB">>
        /\ fmtOut[4] \in {"B", "KB", "MB", "GB"}

\* formatSize was called with a size of 1024 GB or more and printed it in GB.
C19_Witness ==
  /\ fmtOut # << >>
  /\ fmtIn[SizeDigits] # 0
  /\ fmtOut[4] = "GB"
  /\ fmtOut[1] >= Kilo

\* C20: whenever the results route answers with a result for job j, the
\* record of job j says completed.
C20_ResultOnlyIfCompleted ==
  \A j \in JobIds :
    (resp.kind = "results" /\ resp.job = j /\ resp.code = 200)
      => jobStore[j].status = "completed"

\* The paths of a list of records, in the order of the list.
PathsOf(fs) == [i \in DOMAIN fs |-> fs[i].path]

PathSet(fs) == {fs[i].path : i \in DOMAIN fs}

\* Every record's parent path is the root or the path of a record.
ParentsListed(fs) ==
  \A i \in DOMAIN fs :
    Dirname(fs[i].path) = Root \/ Dirname(fs[i].path) \in PathSet(fs)

RECURSIVE AncestorsListed(_, _)
\* Every path between the root and p is the path of a record.
AncestorsListed(fs, p) ==
  IF Dirname(p) = Root THEN TRUE
  ELSE IF Dirname(p) = Dot THEN FALSE
  ELSE Dirname(p) \in PathSet(fs) /\ AncestorsListed(fs, Dirname(p))

C17_PollingClient ==
  /\ [](cfetches + Len(ctimers) <= 1)
  /\ [](\A i \in DOMAIN ctimers : ctimers[i] = 1000)
  /\ [](cfetches + Len(ctimers) > 0 =>
          /\ csent \in JobIds
          /\ pc[csent] \notin {"idle", "hmset", "badRequest"})
  /\ [](Terminal(creply) => cfetches = 0 /\ ctimers = << >>)
  /\ [][(cfetches' < cfetches /\ creply' # "rejected") =>
          /\ (Len(ctimers') = Len(ctimers) + 1) <=> ~Terminal(creply')
          /\ Len(ctimers') >= Len(ctimers)
          /\ creply' = "completed" =>
                cresults' = cresults + 1 /\ cerror' = cerror
          /\ creply' = "failed" =>
                cresults' = cresults /\ cerror' = jobStore[csent].error]_vars
  /\ [][Len(ctimers') < Len(ctimers) =>
          cfetches' = cfetches + 1 /\ Len(ctimers') = Len(ctimers) - 1]_vars

\* After a reply of pending a timeout is armed, while the job has become
\* terminal in the meantime.
C17_Witness ==
  /\ Len(ctimers) = 1
  /\ creply = "pending"
  /\ csent \in JobIds
  /\ Terminal(jobStore[csent].status)

\* C18: computing the filtered tree leaves inspectionData.files as it was
\* received, at every depth, and with the search term cleared the complete
\* tree is shown.
C18_FilterPure ==
  hasData =>
    /\ inspectionFiles = receivedFiles
    /\ searchTerm = "" => filteredFiles = receivedFiles

\* C21: the job id is sent only in the step in which the write of the
\* pending record has resolved, the step that also dispatches the pipeline;
\* from then on the record has a defined status, and a status query for the
\* id that reaches the store is answered 200 with that status; when the
\* write is rejected the answer carries no id, no record is written and no
\* pipeline step of that submission is ever taken.
C21_IdRefersToRecord ==
  /\ [][\A j \in JobIds :
          /\ (resp'.kind = "inspect" /\ resp'.job = j) =>
                /\ pc[j] = "hmset"
                /\ resp'.code = 200
                /\ jobStore'[j].status = "pending"
                /\ pc'[j] = "pull"
          /\ (pc[j] \in {"idle", "hmset"} /\ pc'[j] \in PipelineSteps) =>
                /\ jobStore'[j].status = "pending"
                /\ resp'.kind = "inspect" /\ resp'.job = j
          /\ (pc[j] = "hmset" /\ pc'[j] = "badRequest") =>
                /\ resp'.kind = "inspect" /\ resp'.code = 400 /\ resp'.job = 0
                /\ jobStore'[j] = EmptyHash
          /\ pc[j] = "badRequest" =>
                pc'[j] = "badRequest" /\ jobStore'[j] = EmptyHash]_vars
  /\ [](\A j \in JobIds :
          pc[j] \notin {"idle", "hmset", "badRequest"} =>
            /\ jobStore[j].status \in {"pending", "completed", "failed"}
            /\ (resp.kind = "status" /\ resp.job = j) =>
                  resp.code = 200 /\ resp.status = jobStore[j].status)

\* A status query for an id that was returned is answered pending while the
\* job's pull runs, and another submission was answered 400 before.
C21_Witness ==
  \E j, k \in JobIds :
    /\ resp.kind = "status" /\ resp.job = j /\ resp.code = 200
    /\ resp.status = "pending"
    /\ pc[j] = "pull"
    /\ pc[k] = "badRequest"

====
